---- MODULE Spec2Model ----
(***************************************************************************)
(* DatalogIR syntax checker (src/src/IR.py): the Lexer, the recursive-      *)
(* descent Parser and check_syntax, as a state machine.  A source text is   *)
(* a sequence of one-character strings.  One step of the machine is one     *)
(* iteration of Lexer.tokenize's loop or one token-reading segment of a     *)
(* Parser method; the Parser's call stack is the variable stack.            *)
(***************************************************************************)
EXTENDS Naturals, Integers, Sequences, FiniteSets, TLC

VARIABLES
    src,        \* Lexer._src: the source text being checked
    lex,        \* Lexer._pos / _line / _col
    tokens,     \* the local list `tokens` of Lexer.tokenize, then Parser._tokens
    pc,         \* where the control is: "tokenize", a Parser label, "done"
    ppos,       \* Parser._pos
    stack,      \* return labels of the Parser methods being executed
    ret,        \* the value the last Parser method returned
    program,    \* Program.clauses being built by parse_program
    locals,     \* local variables of the active Parser methods
    result,     \* "none", "ok", "LexerError" or "SyntaxError"
    err,        \* line/col of the exception raised
    round,      \* 1: checking the given source, 2: checking repr(Program)
    first       \* the Program of round 1, kept for comparison in round 2

vars == <<src, lex, tokens, pc, ppos, stack, ret, program, locals, result,
          err, round, first>>

-----------------------------------------------------------------------------
(* Bounds of the model *)

MaxLen == 3
MaxPremises == 2
MaxClauses == 2

-----------------------------------------------------------------------------
(* Character classes: str.isalpha / isalnum / isupper and " \t\r\n" *)

LowerChars == {"a", "n", "o", "t"}
UpperChars == {"X"}
DigitChars == {"1"}
Whitespace == {" ", "\t", "\r", "\n"}

IsAlpha(ch) == ch \in LowerChars \cup UpperChars
IsAlnum(ch) == ch \in LowerChars \cup UpperChars \cup DigitChars
IsUpper(ch) == ch \in UpperChars
IsIdentChar(ch) == IsAlnum(ch) \/ ch = "_"

-----------------------------------------------------------------------------
(* Lexer *)

LexInit == [pos |-> 0, line |-> 1, col |-> 1]

\* _advance that does not reset the column on a newline
Advance_NoColumnReset(s, st) ==
    IF s[st.pos + 1] = "\n"
    THEN [pos |-> st.pos + 1, line |-> st.line + 1, col |-> st.col + 1]
    ELSE [pos |-> st.pos + 1, line |-> st.line, col |-> st.col + 1]

\* Lexer._advance: consume one character, tracking line and column
Advance(s, st) ==
    IF s[st.pos + 1] = "\n"
    THEN [pos |-> st.pos + 1, line |-> st.line + 1, col |-> 1]
    ELSE [pos |-> st.pos + 1, line |-> st.line, col |-> st.col + 1]

\* the inner loop of _skip_whitespace_and_comments: skip to end of line
RECURSIVE SkipLine(_, _)
SkipLine(s, st) ==
    IF st.pos < Len(s) /\ s[st.pos + 1] # "\n"
    THEN SkipLine(s, Advance(s, st))
    ELSE st

\* _skip_whitespace_and_comments that stops after one comment
RECURSIVE SkipWhitespaceAndComments_OneComment(_, _)
SkipWhitespaceAndComments_OneComment(s, st) ==
    IF st.pos < Len(s)
    THEN LET ch == s[st.pos + 1] IN
         IF ch \in Whitespace
         THEN SkipWhitespaceAndComments_OneComment(s, Advance(s, st))
         ELSE IF ch = "%"
              THEN SkipLine(s, st)
              ELSE st
    ELSE st

\* Lexer._skip_whitespace_and_comments
RECURSIVE SkipWhitespaceAndComments(_, _)
SkipWhitespaceAndComments(s, st) ==
    IF st.pos < Len(s)
    THEN LET ch == s[st.pos + 1] IN
         IF ch \in Whitespace
         THEN SkipWhitespaceAndComments(s, Advance(s, st))
         ELSE IF ch = "%"
              THEN SkipWhitespaceAndComments(s, SkipLine(s, st))
              ELSE st
    ELSE st

\* Lexer._read_identifier: the cursor after the maximal identifier run
RECURSIVE ReadIdentifier(_, _)
ReadIdentifier(s, st) ==
    IF st.pos < Len(s) /\ IsIdentChar(s[st.pos + 1])
    THEN ReadIdentifier(s, Advance(s, st))
    ELSE st

Token(type, value, line, col) ==
    [type |-> type, value |-> value, line |-> line, col |-> col]

SingleCharType(ch) ==
    CASE ch = "(" -> "LPAREN"
      [] ch = ")" -> "RPAREN"
      [] ch = "," -> "COMMA"
      [] ch = "." -> "DOT"
      [] ch = "?" -> "QUESTION"
      [] ch = "=" -> "EQUALS"

\* the classification of an identifier text (IR.py 200-206)
IdentType(ident) ==
    IF ident = <<"n", "o", "t">> THEN "NOT"
    ELSE IF IsUpper(ident[1]) THEN "IDENT_UPPER"
    ELSE "IDENT_LOWER"

\* One iteration of the loop of Lexer.tokenize, from cursor st0 on source s:
\* [kind |-> "eof" | "token" | "error", tok, st]
LexOne(s, st0) ==
    LET st == SkipWhitespaceAndComments(s, st0) IN
    IF st.pos >= Len(s)
    THEN [kind |-> "eof", tok |-> Token("EOF", <<>>, st.line, st.col), st |-> st]
    ELSE
    LET ch == s[st.pos + 1]
        hasNext == st.pos + 1 < Len(s)
        nxt == s[st.pos + 2]
        one == Advance(s, st)
    IN
    IF ch \in {"(", ")", ",", ".", "?", "="}
    THEN [kind |-> "token", st |-> one,
          tok |-> Token(SingleCharType(ch), <<ch>>, st.line, st.col)]
    ELSE IF ch = "!" /\ hasNext /\ nxt = "="
    THEN [kind |-> "token", st |-> Advance(s, one),
          tok |-> Token("NOT_EQUALS", <<"!", "=">>, st.line, st.col)]
    ELSE IF ch = ":" /\ hasNext /\ nxt = "-"
    THEN [kind |-> "token", st |-> Advance(s, one),
          tok |-> Token("COLON_DASH", <<":", "-">>, st.line, st.col)]
    ELSE IF ch = "_" /\ (~hasNext \/ ~IsIdentChar(nxt))
    THEN [kind |-> "token", st |-> one,
          tok |-> Token("WILDCARD", <<"_">>, st.line, st.col)]
    ELSE IF IsAlpha(ch) \/ ch = "_"
    THEN LET en == ReadIdentifier(s, st)
             ident == SubSeq(s, st.pos + 1, en.pos)
         IN [kind |-> "token", st |-> en,
             tok |-> Token(IdentType(ident), ident, st.line, st.col)]
    ELSE [kind |-> "error", st |-> st,
          tok |-> Token("EOF", <<>>, st.line, st.col)]

-----------------------------------------------------------------------------
(* AST nodes (the dataclasses of IR.py 218-361) and their __repr__ *)

NoVal == [kind |-> "None"]

Constant(name, line, col) ==
    [kind |-> "Constant", name |-> name, line |-> line, col |-> col]
Variable(name, line, col) ==
    [kind |-> "Variable", name |-> name, line |-> line, col |-> col]
Wildcard(line, col) ==
    [kind |-> "Wildcard", line |-> line, col |-> col]
Atom(predicate, args, line, col) ==
    [kind |-> "Atom", predicate |-> predicate, args |-> args,
     line |-> line, col |-> col]
NegatedAtom(atom, line, col) ==
    [kind |-> "NegatedAtom", atom |-> atom, line |-> line, col |-> col]
Equality(left, right, line, col) ==
    [kind |-> "Equality", left |-> left, right |-> right,
     line |-> line, col |-> col]
Inequality(left, right, line, col) ==
    [kind |-> "Inequality", left |-> left, right |-> right,
     line |-> line, col |-> col]
Fact(head, line, col) ==
    [kind |-> "Fact", head |-> head, line |-> line, col |-> col]
Rule(head, body, line, col) ==
    [kind |-> "Rule", head |-> head, body |-> body, line |-> line, col |-> col]
Query(atom, line, col) ==
    [kind |-> "Query", atom |-> atom, line |-> line, col |-> col]

\* sep.join(parts)
RECURSIVE Join(_, _)
Join(parts, sep) ==
    IF parts = <<>> THEN <<>>
    ELSE IF Len(parts) = 1 THEN parts[1]
    ELSE parts[1] \o sep \o Join(Tail(parts), sep)

\* Constant.__repr__, Variable.__repr__, Wildcard.__repr__
TermRepr(t) == IF t.kind = "Wildcard" THEN <<"_">> ELSE t.name

\* Atom.__repr__
AtomRepr(a) ==
    IF a.args = <<>> THEN a.predicate
    ELSE a.predicate \o <<"(">>
         \o Join([i \in 1..Len(a.args) |-> TermRepr(a.args[i])], <<",", " ">>)
         \o <<")">>

\* PremiseRepr with no space after 'not'
PremiseRepr_NotGlued(p) ==
    CASE p.kind = "Atom" -> AtomRepr(p)
      [] p.kind = "NegatedAtom" -> <<"n", "o", "t">> \o AtomRepr(p.atom)
      [] p.kind = "Equality" -> TermRepr(p.left) \o <<"=">> \o TermRepr(p.right)
      [] p.kind = "Inequality" ->
            TermRepr(p.left) \o <<"!", "=">> \o TermRepr(p.right)

\* NegatedAtom.__repr__, Equality.__repr__, Inequality.__repr__ (and Atom's)
PremiseRepr(p) ==
    CASE p.kind = "Atom" -> AtomRepr(p)
      [] p.kind = "NegatedAtom" -> <<"n", "o", "t", " ">> \o AtomRepr(p.atom)
      [] p.kind = "Equality" -> TermRepr(p.left) \o <<"=">> \o TermRepr(p.right)
      [] p.kind = "Inequality" ->
            TermRepr(p.left) \o <<"!", "=">> \o TermRepr(p.right)

\* Fact.__repr__, Rule.__repr__, Query.__repr__
ClauseRepr(c) ==
    CASE c.kind = "Fact" -> AtomRepr(c.head) \o <<".">>
      [] c.kind = "Query" -> AtomRepr(c.atom) \o <<"?">>
      [] c.kind = "Rule" ->
            AtomRepr(c.head) \o <<" ", ":", "-", " ">>
            \o Join([i \in 1..Len(c.body) |-> PremiseRepr(c.body[i])],
                    <<",", " ">>)
            \o <<".">>

\* Program.__repr__
ProgramRepr(clauses) ==
    Join([i \in 1..Len(clauses) |-> ClauseRepr(clauses[i])], <<"\n">>)

-----------------------------------------------------------------------------
(* Parser helpers *)

NoErr == [line |-> 0, col |-> 0]

InitLocals ==
    [head |-> NoVal,      \* _parse_clause: head
     body |-> <<>>,       \* _parse_clause: body
     atomTok |-> NoVal,   \* _parse_atom: tok
     args |-> <<>>,       \* _parse_atom: args
     premTok |-> NoVal,   \* _parse_premise: tok
     left |-> NoVal,      \* _parse_premise: atom (IDENT_LOWER path) or left
     op |-> "none"]       \* _parse_premise: which of '=' / '!=' was consumed

\* Parser._cur and Parser._peek_type
Cur == tokens[ppos + 1]
PeekType == tokens[ppos + 1].type

LexerUnchanged == UNCHANGED <<src, lex, tokens, round, first>>

\* raise SyntaxError(..., line, col)
RaiseSyntaxError(line, col) ==
    /\ result' = "SyntaxError"
    /\ err' = [line |-> line, col |-> col]
    /\ pc' = "done"
    /\ UNCHANGED <<ppos, stack, ret, program, locals>>

\* a call of a Parser method: control moves to it, the return label is pushed
Call(method, back) ==
    /\ pc' = method
    /\ stack' = <<back>> \o stack

\* `return v` of a Parser method
Return(v) ==
    /\ pc' = Head(stack)
    /\ stack' = Tail(stack)
    /\ ret' = v

-----------------------------------------------------------------------------
(* check_syntax, step 1: Lexer(source).tokenize() *)

\* Tokenize with the EOF token located where the last iteration began,
\* before the trailing white space and comments were skipped
Tokenize_EofBeforeSkip ==
    /\ pc = "tokenize"
    /\ LET r == LexOne(src, lex) IN
       /\ lex' = r.st
       /\ CASE r.kind = "eof" ->
                 /\ tokens' = Append(tokens, Token("EOF", <<>>, lex.line, lex.col))
                 /\ pc' = "parse_program"
                 /\ UNCHANGED <<result, err>>
            [] r.kind = "token" ->
                 /\ tokens' = Append(tokens, r.tok)
                 /\ UNCHANGED <<pc, result, err>>
            [] r.kind = "error" ->
                 /\ result' = "LexerError"
                 /\ err' = [line |-> r.st.line, col |-> r.st.col]
                 /\ pc' = "done"
                 /\ UNCHANGED tokens
    /\ UNCHANGED <<src, ppos, stack, ret, program, locals, round, first>>

\* Tokenize with the LexerError located where the iteration began, before
\* white space and comments were skipped
Tokenize_ErrorBeforeSkip ==
    /\ pc = "tokenize"
    /\ LET r == LexOne(src, lex) IN
       /\ lex' = r.st
       /\ CASE r.kind = "eof" ->
                 /\ tokens' = Append(tokens, r.tok)
                 /\ pc' = "parse_program"
                 /\ UNCHANGED <<result, err>>
            [] r.kind = "token" ->
                 /\ tokens' = Append(tokens, r.tok)
                 /\ UNCHANGED <<pc, result, err>>
            [] r.kind = "error" ->
                 /\ result' = "LexerError"
                 /\ err' = [line |-> lex.line, col |-> lex.col]
                 /\ pc' = "done"
                 /\ UNCHANGED tokens
    /\ UNCHANGED <<src, ppos, stack, ret, program, locals, round, first>>

\* One iteration of the `while True` loop of Lexer.tokenize.  On end of input
\* the EOF token is appended and check_syntax goes on to
\* Parser(tokens).parse_program(); an unexpected character raises LexerError.
Tokenize ==
    /\ pc = "tokenize"
    /\ LET r == LexOne(src, lex) IN
       /\ lex' = r.st
       /\ CASE r.kind = "eof" ->
                 /\ tokens' = Append(tokens, r.tok)
                 /\ pc' = "parse_program"
                 /\ UNCHANGED <<result, err>>
            [] r.kind = "token" ->
                 /\ tokens' = Append(tokens, r.tok)
                 /\ UNCHANGED <<pc, result, err>>
            [] r.kind = "error" ->
                 /\ result' = "LexerError"
                 /\ err' = [line |-> r.st.line, col |-> r.st.col]
                 /\ pc' = "done"
                 /\ UNCHANGED tokens
    /\ UNCHANGED <<src, ppos, stack, ret, program, locals, round, first>>

-----------------------------------------------------------------------------
(* check_syntax, step 2: Parser(tokens).parse_program() *)

\* parse_program: the loop test, then a call of _parse_clause or _expect(EOF)
ParseProgram ==
    /\ pc = "parse_program"
    /\ IF PeekType # "EOF"
       THEN /\ Call("parse_clause", "program_append")
            /\ UNCHANGED <<ppos, ret, program, locals, result, err>>
       ELSE IF Cur.type # "EOF"
            THEN RaiseSyntaxError(Cur.line, Cur.col)
            ELSE /\ ppos' = ppos + 1
                 /\ result' = "ok"
                 /\ pc' = "done"
                 /\ UNCHANGED <<stack, ret, program, locals, err>>
    /\ LexerUnchanged

\* parse_program: program.clauses.append(<the clause returned>)
ProgramAppend ==
    /\ pc = "program_append"
    /\ program' = Append(program, ret)
    /\ pc' = "parse_program"
    /\ UNCHANGED <<ppos, stack, ret, locals, result, err>>
    /\ LexerUnchanged

\* _parse_clause: head = self._parse_atom()
ParseClause ==
    /\ pc = "parse_clause"
    /\ Call("parse_atom", "clause_head")
    /\ UNCHANGED <<ppos, ret, program, locals, result, err>>
    /\ LexerUnchanged

\* ClauseHead with the '?' branch building a Fact
ClauseHead_QueryAsFact ==
    /\ pc = "clause_head"
    /\ LET head == ret IN
       IF PeekType \in {"DOT", "QUESTION"}
       THEN /\ ppos' = ppos + 1
            /\ Return(Fact(head, head.line, head.col))
            /\ locals' = [locals EXCEPT !.head = head]
            /\ UNCHANGED <<program, result, err>>
       ELSE IF Cur.type # "COLON_DASH"
       THEN RaiseSyntaxError(Cur.line, Cur.col)
       ELSE /\ ppos' = ppos + 1
            /\ locals' = [locals EXCEPT !.head = head, !.body = <<>>]
            /\ Call("parse_premise", "clause_body")
            /\ UNCHANGED <<ret, program, result, err>>
    /\ LexerUnchanged

\* _parse_clause after the head: '.', '?' or ':-' and the first premise
ClauseHead ==
    /\ pc = "clause_head"
    /\ LET head == ret IN
       IF PeekType = "DOT"
       THEN /\ ppos' = ppos + 1
            /\ Return(Fact(head, head.line, head.col))
            /\ locals' = [locals EXCEPT !.head = head]
            /\ UNCHANGED <<program, result, err>>
       ELSE IF PeekType = "QUESTION"
       THEN /\ ppos' = ppos + 1
            /\ Return(Query(head, head.line, head.col))
            /\ locals' = [locals EXCEPT !.head = head]
            /\ UNCHANGED <<program, result, err>>
       ELSE IF Cur.type # "COLON_DASH"
       THEN RaiseSyntaxError(Cur.line, Cur.col)
       ELSE /\ ppos' = ppos + 1
            /\ locals' = [locals EXCEPT !.head = head, !.body = <<>>]
            /\ Call("parse_premise", "clause_body")
            /\ UNCHANGED <<ret, program, result, err>>
    /\ LexerUnchanged

\* ClauseBody tolerating a ',' right before the closing '.'
ClauseBody_TrailingComma ==
    /\ pc = "clause_body"
    /\ LET body == Append(locals.body, ret)
           head == locals.head
       IN
       IF PeekType = "COMMA" /\ tokens[ppos + 2].type = "DOT"
       THEN /\ ppos' = ppos + 2
            /\ locals' = [locals EXCEPT !.body = body]
            /\ Return(Rule(head, body, head.line, head.col))
            /\ UNCHANGED <<program, result, err>>
       ELSE IF PeekType = "COMMA"
       THEN /\ ppos' = ppos + 1
            /\ locals' = [locals EXCEPT !.body = body]
            /\ Call("parse_premise", "clause_body")
            /\ UNCHANGED <<ret, program, result, err>>
       ELSE IF Cur.type # "DOT"
       THEN RaiseSyntaxError(Cur.line, Cur.col)
       ELSE /\ ppos' = ppos + 1
            /\ locals' = [locals EXCEPT !.body = body]
            /\ Return(Rule(head, body, head.line, head.col))
            /\ UNCHANGED <<program, result, err>>
    /\ LexerUnchanged

\* _parse_clause: the premise returned joins the body; ',' and another
\* premise, or the closing '.'
ClauseBody ==
    /\ pc = "clause_body"
    /\ LET body == Append(locals.body, ret)
           head == locals.head
       IN
       IF PeekType = "COMMA"
       THEN /\ ppos' = ppos + 1
            /\ locals' = [locals EXCEPT !.body = body]
            /\ Call("parse_premise", "clause_body")
            /\ UNCHANGED <<ret, program, result, err>>
       ELSE IF Cur.type # "DOT"
       THEN RaiseSyntaxError(Cur.line, Cur.col)
       ELSE /\ ppos' = ppos + 1
            /\ locals' = [locals EXCEPT !.body = body]
            /\ Return(Rule(head, body, head.line, head.col))
            /\ UNCHANGED <<program, result, err>>
    /\ LexerUnchanged

\* _parse_atom: tok = self._expect(IDENT_LOWER); args = []
ParseAtom ==
    /\ pc = "parse_atom"
    /\ IF Cur.type # "IDENT_LOWER"
       THEN RaiseSyntaxError(Cur.line, Cur.col)
       ELSE /\ ppos' = ppos + 1
            /\ locals' = [locals EXCEPT !.atomTok = Cur, !.args = <<>>]
            /\ pc' = "atom_lparen"
            /\ UNCHANGED <<stack, ret, program, result, err>>
    /\ LexerUnchanged

\* _parse_atom: if self._match(LPAREN) the first argument, else the 0-ary atom
AtomLParen ==
    /\ pc = "atom_lparen"
    /\ LET tok == locals.atomTok IN
       IF PeekType = "LPAREN"
       THEN /\ ppos' = ppos + 1
            /\ Call("parse_term", "atom_arg")
            /\ UNCHANGED <<ret, program, locals, result, err>>
       ELSE /\ Return(Atom(tok.value, <<>>, tok.line, tok.col))
            /\ UNCHANGED <<ppos, program, locals, result, err>>
    /\ LexerUnchanged

\* _parse_atom: the term returned joins args; ',' and another term, or ')'
AtomArg ==
    /\ pc = "atom_arg"
    /\ LET args == Append(locals.args, ret)
           tok == locals.atomTok
       IN
       IF PeekType = "COMMA"
       THEN /\ ppos' = ppos + 1
            /\ locals' = [locals EXCEPT !.args = args]
            /\ Call("parse_term", "atom_arg")
            /\ UNCHANGED <<ret, program, result, err>>
       ELSE IF Cur.type # "RPAREN"
       THEN RaiseSyntaxError(Cur.line, Cur.col)
       ELSE /\ ppos' = ppos + 1
            /\ locals' = [locals EXCEPT !.args = args]
            /\ Return(Atom(tok.value, args, tok.line, tok.col))
            /\ UNCHANGED <<program, result, err>>
    /\ LexerUnchanged

\* the term a token stands for (the three returns of _parse_term)
TermOf(tok) ==
    CASE tok.type = "IDENT_LOWER" -> Constant(tok.value, tok.line, tok.col)
      [] tok.type = "IDENT_UPPER" -> Variable(tok.value, tok.line, tok.col)
      [] tok.type = "WILDCARD" -> Wildcard(tok.line, tok.col)

\* _parse_term that moves the cursor before it looks at the token
ParseTerm_AdvanceFirst ==
    /\ pc = "parse_term"
    /\ ppos' = ppos + 1
    /\ IF Cur.type \in {"IDENT_LOWER", "IDENT_UPPER", "WILDCARD"}
       THEN /\ Return(TermOf(Cur))
            /\ UNCHANGED <<program, locals, result, err>>
       ELSE /\ result' = "SyntaxError"
            /\ err' = [line |-> Cur.line, col |-> Cur.col]
            /\ pc' = "done"
            /\ UNCHANGED <<stack, ret, program, locals>>
    /\ LexerUnchanged

\* _parse_term
ParseTerm ==
    /\ pc = "parse_term"
    /\ IF Cur.type \in {"IDENT_LOWER", "IDENT_UPPER", "WILDCARD"}
       THEN /\ ppos' = ppos + 1
            /\ Return(TermOf(Cur))
            /\ UNCHANGED <<program, locals, result, err>>
       ELSE RaiseSyntaxError(Cur.line, Cur.col)
    /\ LexerUnchanged

\* _parse_premise: 'not' atom, or tok = self._cur() and an atom (IDENT_LOWER)
\* or a term (anything else)
ParsePremise ==
    /\ pc = "parse_premise"
    /\ IF PeekType = "NOT"
       THEN /\ ppos' = ppos + 1
            /\ Call("parse_atom", "premise_negated")
            /\ UNCHANGED locals
       ELSE /\ locals' = [locals EXCEPT !.premTok = Cur]
            /\ IF Cur.type = "IDENT_LOWER"
               THEN Call("parse_atom", "premise_atom")
               ELSE Call("parse_term", "premise_left")
            /\ UNCHANGED ppos
    /\ UNCHANGED <<ret, program, result, err>>
    /\ LexerUnchanged

\* _parse_premise: return NegatedAtom(atom)
PremiseNegated ==
    /\ pc = "premise_negated"
    /\ Return(NegatedAtom(ret, ret.line, ret.col))
    /\ UNCHANGED <<ppos, program, locals, result, err>>
    /\ LexerUnchanged

\* AfterAtom without the test of atom.args
AfterAtom_NoArgsTest(atom, type) ==
    IF type = "EQUALS" THEN "Equality"
    ELSE IF type = "NOT_EQUALS" THEN "Inequality"
    ELSE "atom"

\* the decision of _parse_premise after the atom of an IDENT_LOWER premise:
\* "compound" (raise), "Equality" / "Inequality" (consume the operator and
\* parse the right term) or "atom" (return the atom)
AfterAtom(atom, type) ==
    IF type = "EQUALS"
    THEN IF atom.args # <<>> THEN "compound" ELSE "Equality"
    ELSE IF type = "NOT_EQUALS"
    THEN IF atom.args # <<>> THEN "compound" ELSE "Inequality"
    ELSE "atom"

\* _parse_premise after the atom of an IDENT_LOWER premise
PremiseAtom ==
    /\ pc = "premise_atom"
    /\ LET atom == ret
           tok == locals.premTok
           d == AfterAtom(atom, PeekType)
       IN
       CASE d = "compound" -> RaiseSyntaxError(tok.line, tok.col)
         [] d \in {"Equality", "Inequality"} ->
              /\ ppos' = ppos + 1
              /\ locals' = [locals EXCEPT !.left = atom, !.op = d]
              /\ Call("parse_term", "premise_right_of_atom")
              /\ UNCHANGED <<ret, program, result, err>>
         [] d = "atom" ->
              /\ Return(atom)
              /\ UNCHANGED <<ppos, program, locals, result, err>>
    /\ LexerUnchanged

\* Equality(...) or Inequality(...)
MakeEq(op, left, right, line, col) ==
    IF op = "Equality" THEN Equality(left, right, line, col)
    ELSE Inequality(left, right, line, col)

\* _parse_premise, IDENT_LOWER path: right is parsed; left becomes
\* Constant(atom.predicate) and the Equality / Inequality is returned
PremiseRightOfAtom ==
    /\ pc = "premise_right_of_atom"
    /\ LET right == ret
           atom == locals.left
           tok == locals.premTok
           left == Constant(atom.predicate, atom.line, atom.col)
       IN Return(MakeEq(locals.op, left, right, tok.line, tok.col))
    /\ UNCHANGED <<ppos, program, locals, result, err>>
    /\ LexerUnchanged

\* PremiseLeft returning the bare term when no '=' or '!=' follows
PremiseLeft_BareTerm ==
    /\ pc = "premise_left"
    /\ IF PeekType \in {"EQUALS", "NOT_EQUALS"}
       THEN /\ ppos' = ppos + 1
            /\ locals' = [locals EXCEPT
                    !.left = ret,
                    !.op = IF PeekType = "EQUALS" THEN "Equality"
                           ELSE "Inequality"]
            /\ Call("parse_term", "premise_right")
            /\ UNCHANGED <<ret, program, result, err>>
       ELSE /\ Return(ret)
            /\ UNCHANGED <<ppos, program, locals, result, err>>
    /\ LexerUnchanged

\* PremiseLeft with the error located at the premise's first token, as the
\* compound-atom error is
PremiseLeft_ErrorAtPremise ==
    /\ pc = "premise_left"
    /\ IF PeekType \in {"EQUALS", "NOT_EQUALS"}
       THEN /\ ppos' = ppos + 1
            /\ locals' = [locals EXCEPT
                    !.left = ret,
                    !.op = IF PeekType = "EQUALS" THEN "Equality"
                           ELSE "Inequality"]
            /\ Call("parse_term", "premise_right")
            /\ UNCHANGED <<ret, program, result, err>>
       ELSE RaiseSyntaxError(locals.premTok.line, locals.premTok.col)
    /\ LexerUnchanged

\* _parse_premise after left = self._parse_term(): '=' or '!=' must follow
PremiseLeft ==
    /\ pc = "premise_left"
    /\ IF PeekType \in {"EQUALS", "NOT_EQUALS"}
       THEN /\ ppos' = ppos + 1
            /\ locals' = [locals EXCEPT
                    !.left = ret,
                    !.op = IF PeekType = "EQUALS" THEN "Equality"
                           ELSE "Inequality"]
            /\ Call("parse_term", "premise_right")
            /\ UNCHANGED <<ret, program, result, err>>
       ELSE RaiseSyntaxError(Cur.line, Cur.col)
    /\ LexerUnchanged

\* _parse_premise, term path: return Equality / Inequality(left, right)
PremiseRight ==
    /\ pc = "premise_right"
    /\ LET tok == locals.premTok IN
       Return(MakeEq(locals.op, locals.left, ret, tok.line, tok.col))
    /\ UNCHANGED <<ppos, program, locals, result, err>>
    /\ LexerUnchanged

-----------------------------------------------------------------------------
(* The sources check_syntax is called on *)

\* one character of every class Lexer.tokenize tells apart
Alphabet ==
    {"(", ")", ",", ".", "?", "=", "!", ":", "-", "%", "@", "_",
     "a", "X", "1", " ", "\t", "\n"}

\* every text of at most MaxLen characters
CharSources == UNION {[1..n -> Alphabet] : n \in 0..MaxLen}

\* clause heads: p, p(t), p(t, t)
HeadTexts ==
    {<<"a">>,
     <<"t", "(", "a", ")">>,
     <<"n", "o", "(", "X", ",", " ", "_", ")">>}

\* what follows a head: nothing, one token of every kind, a rule body
AfterHeadTexts ==
    {<<>>,
     <<".">>,
     <<"?">>,
     <<":", "-">>,
     <<",">>,
     <<"=">>,
     <<"!", "=">>,
     <<"(">>,
     <<")">>,
     <<" ", "a">>,
     <<" ", "X">>,
     <<" ", "_">>,
     <<" ", "n", "o", "t">>,
     <<":", "-", "t", ".">>,
     <<":", "-", "X", "=", "a", ".">>}

\* what follows that
TailTexts ==
    {<<>>,
     <<".">>}

\* premises, well-formed and not
PremiseTexts ==
    {<<"t">>,
     <<"t", "(", "X", ")">>,
     <<"n", "o", "t", " ", "t">>,
     <<"n", "o", "t", " ", "a", "(", "_", ",", " ", "a", ")">>,
     <<"X", "=", "a">>,
     <<"_", "!", "=", "X">>,
     <<"a", "=", "X">>,
     <<"t", "!", "=", "_">>,
     <<"t", "(", "X", ")", "=", "a">>,
     <<"a", "(", "X", ",", "a", ")", "!", "=", "X">>,
     <<"X">>,
     <<"_">>,
     <<"n", "o", "t", " ", "X">>,
     <<>>,
     <<"a", "=">>,
     <<"X", "(", "a", ")">>}

\* heads of rules
RuleHeadTexts ==
    {<<"a">>,
     <<"t", "(", "X", ")">>}

\* the end of a rule
RuleEndTexts ==
    {<<".">>,
     <<>>}

\* clauses, a comment line and white space, to be concatenated
ChunkTexts ==
    {<<"a", ".">>,
     <<"t", "(", "X", ",", " ", "_", ")", "?">>,
     <<"a", ":", "-", "n", "o", "t", " ", "t", ",", "a", "!", "=", "X", ".">>,
     <<"%", "a", ".", "\n">>,
     <<" ", "\r", "\t">>,
     <<"n", "o", ":", "-", "_", "=", "_", ",", "t", "(", "a", ")", ".", "\n">>}

\* all concatenations of 1..n texts of the set, joined by sep
RECURSIVE Concats(_, _, _)
Concats(set, sep, n) ==
    IF n = 0 THEN {}
    ELSE set \cup {x \o sep \o y : x \in set, y \in Concats(set, sep, n - 1)}

\* head, one following token, tail
HeadSources ==
    {h \o a \o t : h \in HeadTexts, a \in AfterHeadTexts, t \in TailTexts}

\* head :- premise {, premise} end, with 1..MaxPremises premises
RuleSources ==
    {h \o <<":", "-">> \o b \o e :
        h \in RuleHeadTexts,
        b \in Concats(PremiseTexts, <<",">>, MaxPremises),
        e \in RuleEndTexts}

\* 1..MaxClauses chunks
ProgramSources == Concats(ChunkTexts, <<>>, MaxClauses)

Sources == CharSources \cup HeadSources \cup RuleSources \cup ProgramSources

-----------------------------------------------------------------------------
(* check_syntax on a source; then on repr(Program) of a successful result *)

\* the state in which check_syntax(s) starts
Start(s, r, f) ==
    /\ src = s
    /\ lex = LexInit
    /\ tokens = <<>>
    /\ pc = "tokenize"
    /\ ppos = 0
    /\ stack = <<>>
    /\ ret = NoVal
    /\ program = <<>>
    /\ locals = InitLocals
    /\ result = "none"
    /\ err = NoErr
    /\ round = r
    /\ first = f

Init == \E s \in Sources : Start(s, 1, <<>>)

\* check_syntax(repr(P)) for the Program P that check_syntax returned
Rerender ==
    /\ pc = "done"
    /\ result = "ok"
    /\ round = 1
    /\ src' = ProgramRepr(program)
    /\ lex' = LexInit
    /\ tokens' = <<>>
    /\ pc' = "tokenize"
    /\ ppos' = 0
    /\ stack' = <<>>
    /\ ret' = NoVal
    /\ program' = <<>>
    /\ locals' = InitLocals
    /\ result' = "none"
    /\ err' = NoErr
    /\ round' = 2
    /\ first' = program

Next ==
    \/ Tokenize
    \/ ParseProgram
    \/ ProgramAppend
    \/ ParseClause
    \/ ClauseHead
    \/ ClauseBody
    \/ ParseAtom
    \/ AtomLParen
    \/ AtomArg
    \/ ParseTerm
    \/ ParsePremise
    \/ PremiseNegated
    \/ PremiseAtom
    \/ PremiseRightOfAtom
    \/ PremiseLeft
    \/ PremiseRight
    \/ Rerender

Spec == Init /\ [][Next]_vars

-----------------------------------------------------------------------------
(* Structure of an AST with the position fields (line, col) left out *)

StripTerm(t) ==
    IF t.kind = "Wildcard" THEN [kind |-> "Wildcard"]
    ELSE [kind |-> t.kind, name |-> t.name]

StripAtom(a) ==
    [kind |-> "Atom", predicate |-> a.predicate,
     args |-> [i \in 1..Len(a.args) |-> StripTerm(a.args[i])]]

StripPremise(p) ==
    CASE p.kind = "Atom" -> StripAtom(p)
      [] p.kind = "NegatedAtom" ->
            [kind |-> "NegatedAtom", atom |-> StripAtom(p.atom)]
      [] p.kind \in {"Equality", "Inequality"} ->
            [kind |-> p.kind, left |-> StripTerm(p.left),
             right |-> StripTerm(p.right)]

StripClause(c) ==
    CASE c.kind = "Fact" -> [kind |-> "Fact", head |-> StripAtom(c.head)]
      [] c.kind = "Query" -> [kind |-> "Query", atom |-> StripAtom(c.atom)]
      [] c.kind = "Rule" ->
            [kind |-> "Rule", head |-> StripAtom(c.head),
             body |-> [i \in 1..Len(c.body) |-> StripPremise(c.body[i])]]

StripP(clauses) == [i \in 1..Len(clauses) |-> StripClause(clauses[i])]

-----------------------------------------------------------------------------
(* Notions the properties below are stated with, defined without the       *)
(* Lexer's and the Parser's code                                            *)

TermTypes == {"IDENT_LOWER", "IDENT_UPPER", "WILDCARD"}
EqTypes == {"EQUALS", "NOT_EQUALS"}

\* check_syntax has returned or raised
Done == pc = "done"
\* Lexer.tokenize has returned: the Parser is running or check_syntax is over
Tokenized == pc # "tokenize" /\ result # "LexerError"

\* line and column of the i-th character of s (i may be Len(s) + 1), counted
\* from the newlines before it
PosOf(s, i) ==
    LET nls == {k \in 1..(i - 1) : s[k] = "\n"}
        last == IF nls = {} THEN 0
                ELSE CHOOSE k \in nls : \A j \in nls : j <= k
    IN [line |-> 1 + Cardinality(nls), col |-> i - last]

\* the i-th character lies in a % comment (the % included)
InComment(s, i) ==
    \E j \in 1..i : s[j] = "%" /\ \A k \in j..(i - 1) : s[k] # "\n"

\* the term a token of a term type denotes, positions left out
TermDenoted(tok) ==
    IF tok.type = "WILDCARD" THEN [kind |-> "Wildcard"]
    ELSE [kind |-> IF tok.type = "IDENT_UPPER" THEN "Variable" ELSE "Constant",
          name |-> tok.value]

\* The grammar of the module's docstring (IR.py 8-14, with the query A?) as
\* a finite automaton over token types: the state after reading a token of
\* type t in state q, "reject" when no clause continues that way.
\*   S0 clause start; H1 head predicate; HA/HT/H2 head arguments;
\*   B0 premise start; N0 after 'not'; N1 negated predicate; NA/NT its
\*   arguments; P1 predicate opening a premise; PA/PT/P2 its arguments;
\*   V1 variable or wildcard opening a premise; E0 after '=' or '!=';
\*   E1 premise complete; END after end of input.
Delta(q, t) ==
    CASE q = "S0" -> (CASE t = "IDENT_LOWER" -> "H1" [] t = "EOF" -> "END"
                        [] OTHER -> "reject")
      [] q \in {"H1", "H2"} ->
            (CASE t = "LPAREN" /\ q = "H1" -> "HA"
               [] t \in {"DOT", "QUESTION"} -> "S0"
               [] t = "COLON_DASH" -> "B0"
               [] OTHER -> "reject")
      [] q = "HA" -> IF t \in TermTypes THEN "HT" ELSE "reject"
      [] q = "HT" -> (CASE t = "COMMA" -> "HA" [] t = "RPAREN" -> "H2"
                        [] OTHER -> "reject")
      [] q = "B0" -> (CASE t = "NOT" -> "N0" [] t = "IDENT_LOWER" -> "P1"
                        [] t \in {"IDENT_UPPER", "WILDCARD"} -> "V1"
                        [] OTHER -> "reject")
      [] q = "N0" -> IF t = "IDENT_LOWER" THEN "N1" ELSE "reject"
      [] q \in {"N1", "P1", "P2", "E1"} ->
            (CASE t = "LPAREN" /\ q = "N1" -> "NA"
               [] t = "LPAREN" /\ q = "P1" -> "PA"
               [] t \in EqTypes /\ q = "P1" -> "E0"
               [] t = "COMMA" -> "B0"
               [] t = "DOT" -> "S0"
               [] OTHER -> "reject")
      [] q = "NA" -> IF t \in TermTypes THEN "NT" ELSE "reject"
      [] q = "NT" -> (CASE t = "COMMA" -> "NA" [] t = "RPAREN" -> "E1"
                        [] OTHER -> "reject")
      [] q = "PA" -> IF t \in TermTypes THEN "PT" ELSE "reject"
      [] q = "PT" -> (CASE t = "COMMA" -> "PA" [] t = "RPAREN" -> "P2"
                        [] OTHER -> "reject")
      [] q = "V1" -> IF t \in EqTypes THEN "E0" ELSE "reject"
      [] q = "E0" -> IF t \in TermTypes THEN "E1" ELSE "reject"
      [] OTHER -> "reject"

\* the automaton on toks from index i in state q: v is the index of the first
\* token with no grammatical continuation (0: none), q the state it is read
\* in, ends the number of clauses completed before it
RECURSIVE RunFrom(_, _, _, _)
RunFrom(toks, i, q, n) ==
    IF i > Len(toks) THEN [v |-> 0, q |-> q, ends |-> n]
    ELSE LET d == Delta(q, toks[i].type) IN
         IF d = "reject" THEN [v |-> i, q |-> q, ends |-> n]
         ELSE RunFrom(toks, i + 1, d,
                      IF d = "S0" THEN n + 1 ELSE n)

Run(toks) == RunFrom(toks, 1, "S0", 0)

\* the state of the automaton in which the i-th token is read ("reject"
\* after a violation)
RECURSIVE StateAt(_, _)
StateAt(toks, i) ==
    IF i = 1 THEN "S0"
    ELSE LET q == StateAt(toks, i - 1) IN
         IF q = "reject" THEN "reject" ELSE Delta(q, toks[i - 1].type)

\* index of the last token of a head p or p(t1, ..., tn) that opens toks;
\* 0 if toks does not open with a complete head
HeadEnd(toks) ==
    IF toks = <<>> \/ toks[1].type # "IDENT_LOWER" THEN 0
    ELSE IF Len(toks) = 1 \/ toks[2].type # "LPAREN" THEN 1
    ELSE LET closes == {j \in 4..Len(toks) :
                          /\ j % 2 = 0
                          /\ toks[j].type = "RPAREN"
                          /\ \A k \in 3..(j - 1) :
                               IF k % 2 = 1 THEN toks[k].type \in TermTypes
                               ELSE toks[k].type = "COMMA"}
         IN IF closes = {} THEN 0 ELSE CHOOSE j \in closes : TRUE

\* the atom that head denotes: predicate and the terms in order
HeadDenoted(toks, e) ==
    [kind |-> "Atom", predicate |-> toks[1].value,
     args |-> [k \in 1..((e - 1) \div 2) |-> TermDenoted(toks[2 * k + 1])]]

-----------------------------------------------------------------------------
(* C1 *)

\* C1: a source that is a head p or p(t1, ..., tn) followed by one
\* terminator parses to exactly one clause whose atom has predicate p and the
\* n terms in order: a Fact for '.', a Query for '?', a Rule for ':-' with a
\* well-formed body and '.'; with any other token after the head (end of
\* input included) check_syntax raises SyntaxError.
C1_HeadThenTerminator ==
    (Done /\ result # "LexerError" /\ HeadEnd(tokens) > 0) =>
        LET e == HeadEnd(tokens)
            t == tokens[e + 1].type
            head == HeadDenoted(tokens, e)
            alone == Len(tokens) = e + 2
            r == Run(tokens)
        IN
        /\ (t = "DOT" /\ alone) =>
              /\ result = "ok"
              /\ StripP(program) = <<[kind |-> "Fact", head |-> head]>>
        /\ (t = "QUESTION" /\ alone) =>
              /\ result = "ok"
              /\ StripP(program) = <<[kind |-> "Query", atom |-> head]>>
        /\ (t = "COLON_DASH" /\ r.v = 0 /\ r.ends = 1) =>
              /\ result = "ok"
              /\ Len(program) = 1
              /\ program[1].kind = "Rule"
              /\ StripAtom(program[1].head) = head
              /\ Len(program[1].body) >= 1
        /\ (t \notin {"DOT", "QUESTION", "COLON_DASH"}) =>
              result = "SyntaxError"

\* a rule with a two-argument head has been returned
C1_Witness ==
    /\ Done /\ round = 1 /\ result = "ok"
    /\ Len(program) = 1
    /\ program[1].kind = "Rule"
    /\ Len(program[1].head.args) = 2
    /\ HeadEnd(tokens) = 6

-----------------------------------------------------------------------------
(* C2 *)

\* the i-th character of s is one the claim lists as recognised: white
\* space, letter, digit, underscore, ( ) , . ? =, '!' before '=', ':' before
\* '-' (and the '-' of that ':-')
ListedAsRecognised(s, i) ==
    \/ s[i] \in Whitespace \cup LowerChars \cup UpperChars \cup DigitChars
    \/ s[i] \in {"_", "(", ")", ",", ".", "?", "="}
    \/ s[i] = "!" /\ i < Len(s) /\ s[i + 1] = "="
    \/ s[i] = ":" /\ i < Len(s) /\ s[i + 1] = "-"
    \/ s[i] = "-" /\ i > 1 /\ s[i - 1] = ":"

\* a digit that does not continue an identifier
LeadingDigit(s, i) ==
    s[i] \in DigitChars /\ (i = 1 \/ ~IsIdentChar(s[i - 1]))

UnrecognisedAsClaimed(s) ==
    {i \in 1..Len(s) : ~InComment(s, i) /\ ~ListedAsRecognised(s, i)}

Unrecognised(s) ==
    {i \in 1..Len(s) :
        ~InComment(s, i) /\ (~ListedAsRecognised(s, i) \/ LeadingDigit(s, i))}

Least(S) == CHOOSE i \in S : \A j \in S : i <= j

\* C2 as claimed: a source with a character outside the claim's list (and
\* outside comments) raises LexerError at the first such character.
C2_Original ==
    (Done /\ UnrecognisedAsClaimed(src) # {}) =>
        /\ result = "LexerError"
        /\ err = PosOf(src, Least(UnrecognisedAsClaimed(src)))

\* C2 amended: the unrecognised characters are those outside the claim's
\* list and also every digit that does not continue an identifier; a source
\* with one raises LexerError at the first of them, whatever the tokens
\* before it are.
C2_LexErrorAtFirstUnrecognised ==
    (Done /\ Unrecognised(src) # {}) =>
        /\ result = "LexerError"
        /\ err = PosOf(src, Least(Unrecognised(src)))

\* LexerError raised on the second line, after tokens no clause starts with
C2_Witness ==
    /\ Done /\ result = "LexerError"
    /\ err.line = 2
    /\ Len(tokens) >= 1 /\ tokens[1].type = "RPAREN"
    /\ Unrecognised(src) # {}

-----------------------------------------------------------------------------
(* C3 *)

TokPos(tok) == [line |-> tok.line, col |-> tok.col]

\* the violation found by the automaton is '=' or '!=' after a premise atom
\* with arguments
CompoundLeftSide(toks, r) ==
    r.v > 0 /\ r.q = "P2" /\ toks[r.v].type \in EqTypes

\* index of the predicate token of the atom whose ')' precedes token v
AtomStart(toks, v) ==
    LET opens == {i \in 1..(v - 1) : toks[i].type = "LPAREN"}
    IN (CHOOSE i \in opens : \A j \in opens : j <= i) - 1

\* C3 as claimed: every SyntaxError is located at the start of the first
\* token at which no grammatical continuation exists.
C3_Original ==
    (Done /\ result = "SyntaxError") =>
        LET r == Run(tokens) IN
        r.v > 0 /\ err = TokPos(tokens[r.v])

\* C3 amended: a SyntaxError is located at the start of the first token at
\* which no grammatical continuation exists, except that the error for '='
\* or '!=' after an atom with arguments is located at the start of that
\* atom (its predicate token).
C3_SyntaxErrorLocation ==
    (Done /\ result = "SyntaxError") =>
        LET r == Run(tokens) IN
        /\ r.v > 0
        /\ err = IF CompoundLeftSide(tokens, r)
                 THEN TokPos(tokens[AtomStart(tokens, r.v)])
                 ELSE TokPos(tokens[r.v])

\* SyntaxError at the end-of-input token of a source with no terminator,
\* the head having arguments
C3_Witness ==
    /\ Done /\ result = "SyntaxError"
    /\ Run(tokens).v = Len(tokens)
    /\ Len(tokens) = 5
    /\ err = TokPos(tokens[5])
    /\ err.col > 1

\* SyntaxError for a compound atom before '=' or '!='
C3_WitnessCompound ==
    /\ Done /\ result = "SyntaxError"
    /\ CompoundLeftSide(tokens, Run(tokens))

-----------------------------------------------------------------------------
(* C4 *)

\* the step taken once the atom of a premise that begins with a
\* Lower-Identifier has been parsed (ret is that atom, Cur the next token)
C4_Decision ==
    pc = "premise_atom" =>
        /\ (PeekType \in EqTypes /\ ret.args # <<>>) =>
              (result' = "SyntaxError" /\ pc' = "done")
        /\ (PeekType \in EqTypes /\ ret.args = <<>>) =>
              (result' = "none" /\ pc' = "parse_term" /\ ppos' = ppos + 1)
        /\ (PeekType \notin EqTypes) =>
              (result' = "none" /\ pc' = "clause_body" /\ ret' = ret
               /\ ppos' = ppos)

\* the premise handed to the body (ret) when it began with a Lower-Identifier
\* (the tokens consumed end at index ppos)
C4_Premise ==
    (pc = "clause_body" /\ ret.kind # "NegatedAtom"
        /\ locals.premTok.type = "IDENT_LOWER") =>
        LET tok == locals.premTok IN
        CASE ret.kind = "Atom" ->
               /\ ret.predicate = tok.value
               /\ PeekType \notin EqTypes
               /\ tokens[ppos].type \in {"IDENT_LOWER", "RPAREN"}
               /\ (ret.args = <<>>) = (tokens[ppos] = tok)
          [] ret.kind \in {"Equality", "Inequality"} ->
               /\ tokens[ppos - 2] = tok
               /\ tokens[ppos - 1].type =
                     (IF ret.kind = "Equality" THEN "EQUALS" ELSE "NOT_EQUALS")
               /\ ret.left = Constant(tok.value, tok.line, tok.col)
               /\ tokens[ppos].type \in TermTypes
               /\ StripTerm(ret.right) = TermDenoted(tokens[ppos])

\* C4: in a rule body, after the atom of a premise that begins with a
\* Lower-Identifier: '=' or '!=' after an atom with arguments is a
\* SyntaxError; after an atom without arguments it gives an Equality or
\* Inequality of Constant(predicate) and the following term; any other next
\* token leaves the premise the parsed atom.
C4_LowerIdentPremise == [][C4_Decision]_vars /\ []C4_Premise

\* an Inequality whose left side is the constant made of a predicate name
C4_Witness ==
    /\ pc = "clause_body"
    /\ ret.kind = "Inequality"
    /\ ret.left.kind = "Constant"
    /\ locals.premTok.type = "IDENT_LOWER"
    /\ ret.right.kind = "Wildcard"

-----------------------------------------------------------------------------
(* C5 *)

\* C5: every Rule of a returned Program has at least one premise, and a
\* token sequence in which ':-' or a ',' is immediately followed by '.'
\* makes check_syntax raise SyntaxError.
C5_NonEmptyBody ==
    /\ (Done /\ result = "ok") =>
          \A i \in 1..Len(program) :
              program[i].kind = "Rule" => Len(program[i].body) >= 1
    /\ (Done /\ result # "LexerError") =>
          \A i \in 1..(Len(tokens) - 1) :
              (tokens[i].type \in {"COLON_DASH", "COMMA"}
                  /\ tokens[i + 1].type = "DOT") => result = "SyntaxError"

\* SyntaxError at the '.' that follows the ',' after a complete premise
C5_Witness ==
    /\ Done /\ result = "SyntaxError"
    /\ Len(tokens) >= 6
    /\ tokens[2].type = "COLON_DASH"
    /\ tokens[4].type = "COMMA"
    /\ tokens[5].type = "DOT"
    /\ err = TokPos(tokens[5])

-----------------------------------------------------------------------------
(* C6 *)

\* the step taken once the term of a premise that begins with an
\* Upper-Identifier or a Wildcard has been parsed
C6_Decision ==
    pc = "premise_left" =>
        /\ ret.kind \in {"Variable", "Wildcard"}
        /\ (PeekType \in EqTypes) =>
              (result' = "none" /\ pc' = "parse_term" /\ ppos' = ppos + 1)
        /\ (PeekType \notin EqTypes) =>
              (result' = "SyntaxError" /\ pc' = "done")

\* the premise handed to the body (ret) when it began with an
\* Upper-Identifier or a Wildcard
C6_Premise ==
    (pc = "clause_body" /\ ret.kind # "NegatedAtom"
        /\ locals.premTok.type \in {"IDENT_UPPER", "WILDCARD"}) =>
        /\ ret.kind \in {"Equality", "Inequality"}
        /\ tokens[ppos - 2] = locals.premTok
        /\ tokens[ppos - 1].type =
              (IF ret.kind = "Equality" THEN "EQUALS" ELSE "NOT_EQUALS")
        /\ StripTerm(ret.left) = TermDenoted(locals.premTok)
        /\ StripTerm(ret.right) = TermDenoted(tokens[ppos])

\* a premise that opens with an Upper-Identifier or a Wildcard and is not
\* term ('=' | '!=') term is rejected
C6_Reject ==
    (Done /\ result # "LexerError") =>
        \A i \in 1..Len(tokens) :
            (/\ tokens[i].type \in {"IDENT_UPPER", "WILDCARD"}
             /\ StateAt(tokens, i) = "B0"
             /\ ~(tokens[i + 1].type \in EqTypes
                    /\ tokens[i + 2].type \in TermTypes))
            => result = "SyntaxError"

\* C6: a premise that begins with an Upper-Identifier or a Wildcard is one
\* term, then '=' or '!=', then one term, and gives Equality(left, right) or
\* Inequality(left, right); in every other case check_syntax raises
\* SyntaxError.
C6_VariablePremise == [][C6_Decision]_vars /\ [](C6_Premise /\ C6_Reject)

\* Equality(Variable, Constant) handed to a rule body
C6_Witness ==
    /\ pc = "clause_body"
    /\ ret.kind = "Equality"
    /\ ret.left.kind = "Variable"
    /\ ret.right.kind = "Constant"
    /\ locals.premTok.type = "IDENT_UPPER"

-----------------------------------------------------------------------------
(* C7 *)

Range(f) == {f[i] : i \in DOMAIN f}

\* the atoms of a Program: heads, query atoms, positive and negated premises
AtomsOfClause(c) ==
    CASE c.kind = "Fact" -> {c.head}
      [] c.kind = "Query" -> {c.atom}
      [] c.kind = "Rule" ->
            {c.head}
            \cup {p \in Range(c.body) : p.kind = "Atom"}
            \cup {p.atom : p \in {q \in Range(c.body) : q.kind = "NegatedAtom"}}

AtomsOf(clauses) == UNION {AtomsOfClause(c) : c \in Range(clauses)}

\* the terms of a Program: arguments of its atoms, sides of its equalities
TermsOf(clauses) ==
    UNION {Range(a.args) : a \in AtomsOf(clauses)}
    \cup UNION {{p.left, p.right} :
                  p \in {q \in UNION {Range(c.body) :
                                c \in {d \in Range(clauses) : d.kind = "Rule"}} :
                            q.kind \in {"Equality", "Inequality"}}}

\* C7: in every Program returned, the predicate of every Atom and the name
\* of every Constant begin with a lowercase letter.
C7_LowercaseInitial ==
    (Done /\ result = "ok") =>
        /\ \A a \in AtomsOf(program) : a.predicate[1] \in LowerChars
        /\ \A t \in TermsOf(program) :
              t.kind = "Constant" => t.name[1] \in LowerChars

-----------------------------------------------------------------------------
(* C8 *)

\* C8: when check_syntax returns Program P, check_syntax(repr(P)) returns a
\* Program structurally equal to P (positions ignored).
C8_RoundTrip ==
    (Done /\ round = 2) =>
        /\ src = ProgramRepr(first)
        /\ result = "ok"
        /\ StripP(program) = StripP(first)

PremiseKinds(clauses) ==
    {p.kind : p \in UNION {Range(c.body) :
                  c \in {d \in Range(clauses) : d.kind = "Rule"}}}

\* the repr of a Program with premises of all four kinds has been re-parsed
C8_Witness ==
    /\ Done /\ round = 2 /\ result = "ok"
    /\ Len(first) = 2
    /\ PremiseKinds(program) =
          {"Atom", "NegatedAtom", "Equality", "Inequality"}

-----------------------------------------------------------------------------
(* C9 *)

\* C9: when Lexer.tokenize has returned, the token list is non-empty, its
\* last token and no other is EOF, and that token carries the Lexer's final
\* line and column, the position just past the last character.
C9_EofLast ==
    Tokenized =>
        /\ Len(tokens) >= 1
        /\ tokens[Len(tokens)].type = "EOF"
        /\ \A i \in 1..(Len(tokens) - 1) : tokens[i].type # "EOF"
        /\ lex.pos = Len(src)
        /\ TokPos(tokens[Len(tokens)]) = [line |-> lex.line, col |-> lex.col]
        /\ TokPos(tokens[Len(tokens)]) = PosOf(src, Len(src) + 1)

\* tokens, then white space that ends on a later line, then EOF
C9_Witness ==
    /\ Tokenized
    /\ Len(tokens) = 3
    /\ tokens[3].type = "EOF"
    /\ tokens[3].line = 2
    /\ tokens[3].col = 1
    /\ src[Len(src)] = "\n"

-----------------------------------------------------------------------------
(* C10 *)

\* s is made of white space and % comments only
OnlyBlank(s) ==
    \A i \in 1..Len(s) : s[i] \in Whitespace \/ InComment(s, i)

\* C10: white space and comments produce no token: no token text holds a
\* white-space character or '%', and on a source made of white space and
\* comments only tokenize returns the single EOF token and check_syntax
\* returns a Program without clauses.
C10_BlankSource ==
    /\ \A i \in 1..Len(tokens) : \A k \in 1..Len(tokens[i].value) :
          tokens[i].value[k] \notin Whitespace \cup {"%"}
    /\ (OnlyBlank(src) /\ pc # "tokenize") =>
          /\ result # "LexerError"
          /\ Len(tokens) = 1
          /\ tokens[1].type = "EOF"
    /\ (OnlyBlank(src) /\ Done) =>
          /\ result = "ok"
          /\ program = <<>>

\* white space, then a comment that ends with the source, checked
C10_Witness ==
    /\ Done /\ result = "ok" /\ program = <<>>
    /\ Len(src) = 3
    /\ src[1] = "\t"
    /\ src[2] = "%"
    /\ src[3] = "a"

-----------------------------------------------------------------------------
(* C11 *)

\* the indices of s (Len(s) + 1 included) whose line and column are pos
IndicesAt(s, pos) == {k \in 1..(Len(s) + 1) : PosOf(s, k) = pos}

\* the characters of s from index a to index b are white space or comment
BlankBetween(s, a, b) ==
    \A k \in a..b : s[k] \in Whitespace \/ InComment(s, k)

\* The tokens toks lie in s where their line and column say: each position
\* is that of an index of s, the token's text stands there outside any
\* comment, EOF stands just past the end, and only white space and comments
\* lie before the first token and between one token and the next.
RECURSIVE TokensPlaced(_, _, _, _)
TokensPlaced(s, toks, i, from) ==
    IF i > Len(toks) THEN TRUE
    ELSE LET tok == toks[i]
             at == IndicesAt(s, TokPos(tok))
         IN
         /\ at # {}
         /\ LET k == CHOOSE x \in at : TRUE IN
            /\ k >= from
            /\ BlankBetween(s, from, k - 1)
            /\ IF tok.type = "EOF"
               THEN k = Len(s) + 1
               ELSE /\ tok.value # <<>>
                    /\ k + Len(tok.value) - 1 <= Len(s)
                    /\ SubSeq(s, k, k + Len(tok.value) - 1) = tok.value
                    /\ ~InComment(s, k)
            /\ TokensPlaced(s, toks, i + 1, k + Len(tok.value))

\* the index just past the last of the tokens toks, placed as above
PastTokens(s, toks) ==
    IF toks = <<>> THEN 1
    ELSE LET tok == toks[Len(toks)] IN
         (CHOOSE x \in IndicesAt(s, TokPos(tok)) : TRUE) + Len(tok.value)

\* C11: the line of every token (EOF included) and of every LexerError is 1
\* plus the number of newlines before its first character, and its column 1
\* plus the number of characters between the last of those newlines (or the
\* start) and that character, whatever comments, tabs, carriage returns and
\* two-character operators precede it.
C11_Positions ==
    /\ (pc = "parse_program" /\ ppos = 0) =>
          TokensPlaced(src, tokens, 1, 1)
    /\ (result = "LexerError") =>
          /\ TokensPlaced(src, tokens, 1, 1)
          /\ LET at == IndicesAt(src, err) IN
             /\ at # {}
             /\ LET k == CHOOSE x \in at : TRUE IN
                /\ k <= Len(src)
                /\ k >= PastTokens(src, tokens)
                /\ BlankBetween(src, PastTokens(src, tokens), k - 1)
                /\ src[k] \notin Whitespace
                /\ ~InComment(src, k)

\* tokens on the second line, after a comment line, with '!=' past ':-'
C11_Witness ==
    /\ pc = "parse_program" /\ ppos = 0
    /\ Len(src) >= 1 /\ Len(tokens) >= 3
    /\ src[1] = "%"
    /\ tokens[1].line = 2 /\ tokens[1].col = 1
    /\ tokens[2].type = "COLON_DASH"
    /\ \E i \in 1..Len(tokens) :
          tokens[i].type = "NOT_EQUALS" /\ tokens[i].line = 2
          /\ tokens[i].col = 11

\* tokens after a space, a carriage return and a tab
C11_WitnessTab ==
    /\ pc = "parse_program" /\ ppos = 0
    /\ Len(src) >= 4 /\ Len(tokens) >= 2
    /\ SubSeq(src, 1, 3) = <<" ", "\r", "\t">>
    /\ tokens[1].type = "IDENT_LOWER" /\ tokens[1].col = 4

-----------------------------------------------------------------------------
(* C12 *)

\* Parser.parse_program is being executed
ParserRunning == pc \notin {"tokenize", "done"}

\* while the Parser runs, the cursor is an index of the token list
C12_InRange ==
    ParserRunning => (ppos >= 0 /\ ppos < Len(tokens))

\* a step of the Parser leaves the cursor or moves it one token forward,
\* and moves it past the EOF token only in the final _expect of
\* parse_program, which returns the Program
C12_Step ==
    ParserRunning =>
        /\ tokens' = tokens
        /\ ppos' \in {ppos, ppos + 1}
        /\ (ppos' = ppos + 1 /\ tokens[ppos + 1].type = "EOF") =>
              (pc = "parse_program" /\ pc' = "done" /\ result' = "ok")

\* how parse_program ends: a Program with the whole list consumed, or a
\* SyntaxError with the EOF token not consumed
C12_End ==
    Done =>
        /\ result \in {"ok", "SyntaxError", "LexerError"}
        /\ (result = "ok") => (ppos = Len(tokens) /\ stack = <<>>)
        /\ (result = "SyntaxError") => ppos < Len(tokens)

\* the number of steps a Parser method can take at label l before a token
\* is consumed or an error raised
Rank(l) ==
    CASE l = "program_append" -> 3
      [] l \in {"parse_program", "atom_lparen"} -> 2
      [] l \in {"parse_clause", "parse_premise", "premise_negated",
                "premise_atom", "premise_right_of_atom", "premise_right"} -> 1
      [] OTHER -> 0

\* what is left to do: the tokens not consumed, then the steps at the label
Measure == 4 * (Len(tokens) - ppos) + Rank(pc)

\* a running Parser can take a step, and every step ends it or lowers the
\* measure: parse_program ends after finitely many steps
C12_Progress ==
    ParserRunning => (pc' = "done" \/ Measure' < Measure)

C12_NotStuck == ParserRunning => ENABLED Next

\* C12: on the token lists tokenize produces, the Parser's cursor is inside
\* the list whenever a token is read, it only increases, the EOF token is
\* consumed by the final _expect of parse_program alone (once on success,
\* never on failure), and parse_program always ends, with a Program or a
\* SyntaxError.
C12_CursorSafety ==
    /\ []C12_InRange
    /\ [][C12_Step]_vars
    /\ []C12_End
    /\ [][C12_Progress]_vars
    /\ []C12_NotStuck

\* a Program returned after ten or more tokens, the EOF token consumed last
C12_Witness ==
    /\ Done /\ result = "ok"
    /\ Len(tokens) >= 10
    /\ ppos = Len(tokens)
    /\ tokens[ppos].type = "EOF"

\* a SyntaxError raised at the EOF token, which stays unconsumed
C12_WitnessError ==
    /\ Done /\ result = "SyntaxError"
    /\ ppos = Len(tokens) - 1
    /\ ppos >= 3

====
